---- MODULE Spec2Model ----
(***************************************************************************)
(* A model of src/app/run.py: the metrics collector (_read_vm_stat,        *)
(* _pressure_level, collect_metrics), the run orchestrator (run_prompt,    *)
(* save_run) and the temperature sweep of __main__.                        *)
(*                                                                         *)
(* Number representations (TLC integers are 32 bit wide):                  *)
(*  - a byte count is [mib, rem], meaning mib * 2^20 + rem bytes;          *)
(*  - a float is an exact rational [w, n, d], meaning w + n/d with         *)
(*    0 <= n < d (division by 1024*1024 is exact in binary floating point  *)
(*    and round(x, 2) rounds the exact value, ties to even);               *)
(*  - a clock reading is [s, f]: whole seconds since the epoch and the     *)
(*    fraction in ticks of 1/TicksPerSec second.                           *)
(***************************************************************************)
EXTENDS Integers, Sequences, FiniteSets, TLC

VARIABLES
    pc,      \* position of the main script: which statement runs next
    i,       \* index into temps of the run being executed (the for loop)
    clock,   \* the system wall clock, read by time.time() and datetime.now()
    log,     \* sequence of events of the script, in the order they happened
    cur,     \* locals of the run in progress (start, r, data, samples, result)
    files,   \* the runs/ directory: file name -> content written
    saved,   \* the save_run calls that returned: <<[path, result], ...>>
    inp,     \* function harness: the function called and its arguments
    out      \* function harness: the results of the calls made so far

vars == <<pc, i, clock, log, cur, files, saved, inp, out>>

-----------------------------------------------------------------------------
(* Exceptions and results: a call either returns a value or raises.        *)

Return(v) == [ok |-> TRUE, val |-> v, exc |-> "none"]
Raise(e) == [ok |-> FALSE, val |-> "none", exc |-> e]

-----------------------------------------------------------------------------
(* Arithmetic.                                                             *)

MiB == 1048576

RoundHalfEven(n, d) ==
    LET q == n \div d
        r == n % d
    IN IF 2 * r < d THEN q
       ELSE IF 2 * r > d THEN q + 1
       ELSE IF q % 2 = 0 THEN q ELSE q + 1

\* bytes / (1024 * 1024) for a byte count [mib, rem]
BytesToMb(b) == [w |-> b.mib, n |-> b.rem, d |-> MiB]

\* n / (1024 * 1024) for a small integer n (page counts times page size)
IntToMb(n) == [w |-> n \div MiB, n |-> n % MiB, d |-> MiB]

\* round(x, 2): the nearest multiple of 1/100, ties to even
Round2(x) ==
    LET h == x.w * 100 + RoundHalfEven(x.n * 100, x.d)
    IN [w |-> h \div 100, n |-> h % 100, d |-> 100]

\* x > k and x < k for a float x and an integer literal k
Gt(x, k) == x.w > k \/ (x.w = k /\ x.n > 0)
Lt(x, k) == x.w < k

-----------------------------------------------------------------------------
(* _read_vm_stat: the report is a sequence of tokens. A token is one       *)
(* character (a digit, ":", ".", " ", "\n", "x") or one of the literal     *)
(* texts the patterns name, which match as a whole or not at all.          *)

PageSizePrefix == "page size of "
PageSizeSuffix == " bytes"
Digits == {"0", "1", "2", "3", "4", "5", "6", "7", "8", "9"}
Whitespace == {" ", "\n"}

DigitValue(c) ==
    CASE c = "0" -> 0 [] c = "1" -> 1 [] c = "2" -> 2 [] c = "3" -> 3
      [] c = "4" -> 4 [] c = "5" -> 5 [] c = "6" -> 6 [] c = "7" -> 7
      [] c = "8" -> 8 [] c = "9" -> 9

\* int(text) for a non-empty run of digits
RECURSIVE IntOf(_)
IntOf(ds) ==
    IF Len(ds) = 0 THEN 0
    ELSE IntOf(SubSeq(ds, 1, Len(ds) - 1)) * 10 + DigitValue(ds[Len(ds)])

\* the first position >= p of text whose token is not in class (Len + 1 if none):
\* where a greedy \s+ or \d+ that starts at p stops
RECURSIVE SkipClass(_, _, _)
SkipClass(text, p, class) ==
    IF p <= Len(text) /\ text[p] \in class THEN SkipClass(text, p + 1, class)
    ELSE p

\* r"page size of (\d+) bytes" tried at position p: the group, or <<>>
MatchPageSize(text, p) ==
    IF text[p] # PageSizePrefix THEN <<>>
    ELSE LET k == SkipClass(text, p + 1, Digits)
         IN IF k > p + 1 /\ k <= Len(text) /\ text[k] = PageSizeSuffix
            THEN SubSeq(text, p + 1, k - 1)
            ELSE <<>>

\* MatchPages with \s* in place of \s+
MatchPagesOptionalWs(text, p, label) ==
    IF ~(text[p] = label /\ p + 1 <= Len(text) /\ text[p + 1] = ":") THEN <<>>
    ELSE LET j == SkipClass(text, p + 2, Whitespace)
             k == SkipClass(text, j, Digits)
         IN IF k > j /\ k <= Len(text) /\ text[k] = "."
            THEN SubSeq(text, j, k - 1)
            ELSE <<>>

\* rf"{re.escape(label)}:\s+(\d+)\." tried at position p: the group, or <<>>
MatchPages(text, p, label) ==
    IF ~(text[p] = label /\ p + 1 <= Len(text) /\ text[p + 1] = ":") THEN <<>>
    ELSE LET j == SkipClass(text, p + 2, Whitespace)
             k == SkipClass(text, j, Digits)
         IN IF j > p + 2 /\ k > j /\ k <= Len(text) /\ text[k] = "."
            THEN SubSeq(text, j, k - 1)
            ELSE <<>>

\* re.search: the match at the leftmost position that has one
RECURSIVE SearchPageSize(_, _)
SearchPageSize(text, p) ==
    IF p > Len(text) THEN <<>>
    ELSE IF MatchPageSize(text, p) # <<>> THEN MatchPageSize(text, p)
    ELSE SearchPageSize(text, p + 1)

RECURSIVE SearchPages(_, _, _)
SearchPages(text, p, label) ==
    IF p > Len(text) THEN <<>>
    ELSE IF MatchPages(text, p, label) # <<>> THEN MatchPages(text, p, label)
    ELSE SearchPages(text, p + 1, label)

DefaultPageSize == 4096

get_pages(text, label) ==
    LET mm == SearchPages(text, 1, label)
    IN IF mm # <<>> THEN IntOf(mm) ELSE 0

\* _read_vm_stat with the failure of the subprocess caught and defaults returned
_read_vm_stat_defaults(run) ==
    IF run.kind # "ok"
    THEN Return([page_size |-> DefaultPageSize, pages_free |-> 0, pages_spec |-> 0,
                 pages_comp |-> 0])
    ELSE LET m == SearchPageSize(run.text, 1)
         IN Return([page_size  |-> IF m # <<>> THEN IntOf(m) ELSE DefaultPageSize,
                    pages_free |-> get_pages(run.text, "Pages free"),
                    pages_spec |-> get_pages(run.text, "Pages speculative"),
                    pages_comp |-> get_pages(run.text, "Pages occupied by compressor")])

\* run is the outcome of subprocess.check_output(["vm_stat"], text=True)
_read_vm_stat(run) ==
    IF run.kind # "ok" THEN Raise(run.kind)
    ELSE LET m == SearchPageSize(run.text, 1)
         IN Return([page_size  |-> IF m # <<>> THEN IntOf(m) ELSE DefaultPageSize,
                    pages_free |-> get_pages(run.text, "Pages free"),
                    pages_spec |-> get_pages(run.text, "Pages speculative"),
                    pages_comp |-> get_pages(run.text, "Pages occupied by compressor")])

-----------------------------------------------------------------------------
(* _pressure_level                                                         *)

HighSwapMb == 256
HighAvailMb == 1024
MediumAvailMb == 2048

\* _pressure_level with >= and <= in place of > and <
_pressure_level_nonstrict(system_available_mb, swap_used_mb) ==
    IF ~Lt(swap_used_mb, HighSwapMb) \/ ~Gt(system_available_mb, HighAvailMb)
    THEN "high"
    ELSE IF ~Lt(swap_used_mb, 0) \/ ~Gt(system_available_mb, MediumAvailMb)
    THEN "medium"
    ELSE "low"

_pressure_level(system_available_mb, swap_used_mb) ==
    IF Gt(swap_used_mb, HighSwapMb) \/ Lt(system_available_mb, HighAvailMb)
    THEN "high"
    ELSE IF Gt(swap_used_mb, 0) \/ Lt(system_available_mb, MediumAvailMb)
    THEN "medium"
    ELSE "low"

-----------------------------------------------------------------------------
(* collect_metrics                                                         *)

TicksPerSec == 10 * 10000

\* time.time() - start_time, in ticks
Elapsed(now, start_time) ==
    (now.s - start_time.s) * TicksPerSec + (now.f - start_time.f)

\* round(x, 4) of a duration of t ticks, in units of 1/10000 second
Round4(t) ==
    IF t >= 0 THEN RoundHalfEven(t, TicksPerSec \div 10000)
    ELSE 0 - RoundHalfEven(0 - t, TicksPerSec \div 10000)

\* The SystemMetrics built at lines 113-124 from the samples taken before
SystemMetrics(start_time, now, cpu_percent, rss, vm, sm, vmstat) ==
    LET used_mb == BytesToMb(vm.used)
        avail_mb == BytesToMb(vm.available)
        swap_used_mb == BytesToMb(sm.used)
        swap_total_mb == BytesToMb(sm.total)
        page_size == vmstat.page_size
        vm_available_bytes == (vmstat.pages_free + vmstat.pages_spec) * page_size
        vm_compressed_bytes == vmstat.pages_comp * page_size
        pressure == _pressure_level(avail_mb, swap_used_mb)
    IN [wall_time_s             |-> Round4(Elapsed(now, start_time)),
        cpu_percent             |-> cpu_percent,
        mem_rss_mb              |-> Round2(BytesToMb(rss)),
        system_mem_used_mb      |-> Round2(used_mb),
        system_mem_available_mb |-> Round2(avail_mb),
        swap_used_mb            |-> Round2(swap_used_mb),
        swap_total_mb           |-> Round2(swap_total_mb),
        memory_pressure         |-> pressure,
        vm_available_mb         |-> Round2(IntToMb(vm_available_bytes)),
        vm_compressed_mb        |-> Round2(IntToMb(vm_compressed_bytes))]

\* env: what the operating system answers during the call
\*   cpu_percent, rss, vm = [used, available], sm = [used, total],
\*   vm_stat (the outcome of the subprocess), now (time.time() at line 114)
collect_metrics(start_time, env) ==
    LET vmstat == _read_vm_stat(env.vm_stat)
    IN IF ~vmstat.ok THEN Raise(vmstat.exc)
       ELSE Return(SystemMetrics(start_time, env.now, env.cpu_percent, env.rss,
                                 env.vm, env.sm, vmstat.val))

-----------------------------------------------------------------------------
(* Dates and strings: datetime.now(timezone.utc), strftime, isoformat, str. *)

DigitStr(d) ==
    CASE d = 0 -> "0" [] d = 1 -> "1" [] d = 2 -> "2" [] d = 3 -> "3" [] d = 4 -> "4"
      [] d = 5 -> "5" [] d = 6 -> "6" [] d = 7 -> "7" [] d = 8 -> "8" [] d = 9 -> "9"

\* n written with exactly w digits (%02d, %04d, %06d)
RECURSIVE Pad(_, _)
Pad(n, w) == IF w = 0 THEN "" ELSE Pad(n \div 10, w - 1) \o DigitStr(n % 10)

\* the proleptic Gregorian date of day z since 1970-01-01
CivilFromDays(z) ==
    LET zz == z + 719468
        era == zz \div 146097
        doe == zz - era * 146097
        yoe == (doe - doe \div 1460 + doe \div 36524 - doe \div 146096) \div 365
        doy == doe - (365 * yoe + yoe \div 4 - yoe \div 100)
        mp == (5 * doy + 2) \div 153
        d == doy - (153 * mp + 2) \div 5 + 1
        m == IF mp < 10 THEN mp + 3 ELSE mp - 9
        y == yoe + era * 400 + (IF m <= 2 THEN 1 ELSE 0)
    IN [year |-> y, month |-> m, day |-> d]

\* the UTC datetime of a clock reading
UtcDateTime(t) ==
    LET date == CivilFromDays(t.s \div 86400)
        sod == t.s % 86400
    IN [year |-> date.year, month |-> date.month, day |-> date.day,
        hour |-> sod \div 3600, minute |-> (sod % 3600) \div 60, second |-> sod % 60,
        microsecond |-> t.f * (1000000 \div TicksPerSec)]

\* dt.strftime("%Y%m%d_%H%M%S")
StrfTime(dt) ==
    Pad(dt.year, 4) \o Pad(dt.month, 2) \o Pad(dt.day, 2) \o "_"
        \o Pad(dt.hour, 2) \o Pad(dt.minute, 2) \o Pad(dt.second, 2)

\* dt.isoformat() of an aware UTC datetime
IsoFormat(dt) ==
    Pad(dt.year, 4) \o "-" \o Pad(dt.month, 2) \o "-" \o Pad(dt.day, 2) \o "T"
        \o Pad(dt.hour, 2) \o ":" \o Pad(dt.minute, 2) \o ":" \o Pad(dt.second, 2)
        \o (IF dt.microsecond = 0 THEN "" ELSE "." \o Pad(dt.microsecond, 6))
        \o "+00:00"

\* the decimal digits of n >= 0, as characters
RECURSIVE IntChars(_)
IntChars(n) == IF n < 10 THEN <<DigitStr(n)>> ELSE Append(IntChars(n \div 10), DigitStr(n % 10))

\* str(x) of a float x >= 0 given in tenths: the characters of its repr
StrFloat(tenths) == IntChars(tenths \div 10) \o <<".", DigitStr(tenths % 10)>>

\* s.replace(old, new) on a sequence of characters
Replace(chars, old, new) ==
    [k \in DOMAIN chars |-> IF chars[k] = old THEN new ELSE chars[k]]

RECURSIVE Join(_)
Join(chars) == IF Len(chars) = 0 THEN "" ELSE Head(chars) \o Join(Tail(chars))

\* s.strip() on a sequence of characters
RECURSIVE LStrip(_)
LStrip(chars) ==
    IF Len(chars) > 0 /\ Head(chars) \in Whitespace THEN LStrip(Tail(chars)) ELSE chars
RECURSIVE RStrip(_)
RStrip(chars) ==
    IF Len(chars) > 0 /\ chars[Len(chars)] \in Whitespace
    THEN RStrip(SubSeq(chars, 1, Len(chars) - 1)) ELSE chars
Strip(chars) == RStrip(LStrip(chars))

-----------------------------------------------------------------------------
(* save_run                                                                *)

RunsDir == "runs"

\* the path computed at lines 163-165 when the clock reads now
RunFilePath(result, now) ==
    LET timestamp == StrfTime(UtcDateTime(now))
        temp_str == Join(Replace(StrFloat(result.config.temperature), ".", "p"))
    IN RunsDir \o "/" \o "run_" \o timestamp \o "_t" \o temp_str \o ".json"

\* open(file_path, "w") and json.dump: the file is created or truncated, and
\* holds the dumped result
WriteFile(fs, path, content) ==
    [name \in DOMAIN fs \cup {path} |-> IF name = path THEN content ELSE fs[name]]

\* io is the outcome of mkdir and open: "ok" or the OSError raised
save_run(result, now, fs, io) ==
    IF io # "ok" THEN [ret |-> Raise(io), files |-> fs]
    ELSE LET file_path == RunFilePath(result, now)
         IN [ret |-> Return(file_path), files |-> WriteFile(fs, file_path, result)]

-----------------------------------------------------------------------------
(* Inputs of the function harness.                                         *)

MaxLines == 3

HeaderLine(digits) == <<"x", PageSizePrefix>> \o digits \o <<PageSizeSuffix, "\n">>
Line(label, ws, digits, tail) == <<label, ":">> \o ws \o digits \o tail \o <<"\n">>

Lines ==
    { HeaderLine(<<"1", "6", "3", "8", "4">>),
      HeaderLine(<<>>),
      Line("Pages free", <<" ">>, <<"1", "0", "0", "0">>, <<".">>),
      Line("Pages free", <<" ", " ">>, <<"7">>, <<".">>),
      Line("Pages free", <<" ">>, <<"1", "0", "0", "0">>, <<>>),
      Line("Pages free", <<>>, <<"5">>, <<".">>),
      Line("Pages speculative", <<" ">>, <<"2", "0">>, <<".">>),
      Line("Pages occupied by compressor", <<" ">>, <<"3", "0", "0">>, <<".">>),
      Line("Pages occupied by compressor", <<" ">>, <<>>, <<".">>),
      <<"x", "\n">> }

RECURSIVE Flatten(_)
Flatten(ls) == IF Len(ls) = 0 THEN <<>> ELSE Head(ls) \o Flatten(Tail(ls))

Reports == UNION { { Flatten(ls) : ls \in [1..n -> Lines] } : n \in 0..MaxLines }

VmStatOk(text) == [kind |-> "ok", text |-> text]
VmStatFailures ==
    { [kind |-> "FileNotFoundError", text |-> <<>>],
      [kind |-> "CalledProcessError", text |-> <<>>] }
VmStatRuns == { VmStatOk(t) : t \in Reports } \cup VmStatFailures

TypicalReport ==
    Flatten(<<HeaderLine(<<"1", "6", "3", "8", "4">>),
              Line("Pages free", <<" ">>, <<"1", "0", "0", "0">>, <<".">>),
              Line("Pages speculative", <<" ">>, <<"2", "0">>, <<".">>),
              Line("Pages occupied by compressor", <<" ">>, <<"3", "0", "0">>, <<".">>)>>)

Mb(w, n) == [w |-> w, n |-> n, d |-> 1000]
MbSamples ==
    { Mb(w, n) : w \in {0, 10, 255, 256, 300, 500, 1023, 1024, 2047, 2048, 3000},
                 n \in {0, 1, 999} }

Bytes(mib, rem) == [mib |-> mib, rem |-> rem]
AvailSamples ==
    { Bytes(500, 0), Bytes(1023, MiB - 1), Bytes(1024, 0), Bytes(2047, MiB - 1),
      Bytes(2048, 0), Bytes(3000, 0) }
SwapSamples ==
    { Bytes(0, 0), Bytes(0, 1), Bytes(0, 5243), Bytes(10, 0), Bytes(256, 0),
      Bytes(256, 1), Bytes(300, 0) }

\* 2024-01-02T03:04:05Z
Epoch0 == 19724 * 86400 + 3 * 3600 + 4 * 60 + 5
At(s, f) == [s |-> s, f |-> f]
Clock0 == At(Epoch0, 0)
StartSamples ==
    { At(Epoch0 - 2, 0), At(Epoch0 - 1, TicksPerSec - 15), At(Epoch0 - 1, TicksPerSec - 5),
      Clock0, At(Epoch0, TicksPerSec \div 2) }

Env(avail, swap, run) ==
    [cpu_percent |-> 12, rss |-> Bytes(80, 5243),
     vm |-> [used |-> Bytes(9000, 0), available |-> avail],
     sm |-> [used |-> swap, total |-> Bytes(1024, 0)],
     vm_stat |-> run, now |-> Clock0]

PressureInputs ==
    [fn : {"_pressure_level"}, system_available_mb : MbSamples, swap_used_mb : MbSamples]
ReadVmStatInputs == [fn : {"_read_vm_stat"}, run : VmStatRuns]
CollectInputs ==
    { [fn |-> "collect_metrics", starts |-> <<a, b>>, env |-> Env(av, sw, run)] :
        a \in StartSamples, b \in StartSamples, av \in AvailSamples, sw \in SwapSamples,
        run \in {VmStatOk(TypicalReport), [kind |-> "CalledProcessError", text |-> <<>>]} }
    \cup
    { [fn |-> "collect_metrics", starts |-> <<Clock0>>,
       env |-> Env(Bytes(3000, 0), Bytes(0, 0), run)] : run \in VmStatRuns }

-----------------------------------------------------------------------------
(* The main script: the temperature sweep, run_prompt statement by         *)
(* statement, save_run. An uncaught exception ends the script.             *)

\* temps = [0.0, 0.3, 0.7, 1.1], in tenths
temps == <<0, 3, 7, 11>>
Model == "llama3.1:8b"
Prompt == "Explain what temperature does in large language models in simple terms. Give a short example."

NoRun == [config |-> "none", start |-> "none", r |-> "none", data |-> "none",
          cpu_percent |-> "none", rss |-> "none", vm |-> "none", sm |-> "none",
          vmstat |-> "none", metrics |-> "none", result |-> "none"]
NoFiles == [name \in {} |-> "none"]

\* What the inference endpoint may answer to the POST: a transport failure
\* (no response), or a response with a status and a body.
Transport(kind) == [kind |-> kind, status |-> 0, body |-> "none"]
Response(status, body) == [kind |-> "response", status |-> status, body |-> body]
JsonBody(fields) == [json |-> TRUE, fields |-> fields]
NotJson == [json |-> FALSE, fields |-> [k \in {} |-> <<>>]]
ResponseText == <<" ", "O", "l", "l", "a", "m", "a", " ", "i", "s", " ", "r", "u", "n", "n", "i", "n", "g", " ", "\n">>
PostOutcomes ==
    { Transport("ConnectError"), Transport("ReadTimeout"),
      Response(200, JsonBody([k \in {"response"} |-> ResponseText])),
      Response(200, JsonBody([k \in {"error"} |-> <<"x">>])),
      Response(200, NotJson),
      Response(404, JsonBody([k \in {"error"} |-> <<"x">>])),
      Response(500, NotJson) }

\* httpx: Response.is_success
IsSuccess(status) == 200 <= status /\ status <= 299

\* What the operating system may answer to the samples of one run
ScriptAvailSamples == {Bytes(1023, MiB - 1)}
ScriptVmStatRuns == {VmStatOk(TypicalReport)} \cup VmStatFailures
SaveOutcomes == {"ok", "OSError"}

\* Time passes between any two statements, in steps of 0.6 s
MaxTicks == 2
TickStep == 6 * (TicksPerSec \div 10)
Advance(t, ticks) ==
    [s |-> t.s + (t.f + ticks) \div TicksPerSec, f |-> (t.f + ticks) % TicksPerSec]

Running == pc \notin {"off", "done", "aborted"}

Tick ==
    /\ Running
    /\ Elapsed(clock, Clock0) < MaxTicks * TickStep
    /\ clock' = Advance(clock, TickStep)
    /\ UNCHANGED <<pc, i, log, cur, files, saved, inp, out>>

Event(ev, val) == [run |-> i, ev |-> ev, val |-> val]

\* an exception nobody catches: the script ends
Abort(ev, val, exc) ==
    /\ pc' = "aborted"
    /\ log' = log \o <<Event(ev, val), Event("raise", exc)>>

\* NextStep with collect_metrics called before the request is sent
NextStepCollectFirst ==
    [for |-> "start", start |-> "cpu_percent", cpu_percent |-> "memory_info",
     memory_info |-> "virtual_memory", virtual_memory |-> "swap_memory",
     swap_memory |-> "vm_stat", vm_stat |-> "wall_time", wall_time |-> "post",
     post |-> "raise_for_status", raise_for_status |-> "json", json |-> "result",
     result |-> "save_run", save_run |-> "print", print |-> "for"]

\* NextStep with the call of save_run left out
NextStepNoSave ==
    [for |-> "start", start |-> "post", post |-> "raise_for_status",
     raise_for_status |-> "json", json |-> "cpu_percent", cpu_percent |-> "memory_info",
     memory_info |-> "virtual_memory", virtual_memory |-> "swap_memory",
     swap_memory |-> "vm_stat", vm_stat |-> "wall_time", wall_time |-> "result",
     result |-> "print", save_run |-> "print", print |-> "for"]

\* The order of the statements of one iteration (lines 186-202, with run_prompt
\* at 132-153 and collect_metrics at 86-124 inlined)
NextStep ==
    [for |-> "start", start |-> "post", post |-> "raise_for_status",
     raise_for_status |-> "json", json |-> "cpu_percent", cpu_percent |-> "memory_info",
     memory_info |-> "virtual_memory", virtual_memory |-> "swap_memory",
     swap_memory |-> "vm_stat", vm_stat |-> "wall_time", wall_time |-> "result",
     result |-> "save_run", save_run |-> "print", print |-> "for"]

\* line 185: the temperature of the i-th iteration
TempOfRun(n) == temps[n]

\* lines 185-191: the next temperature, or the end of the loop
ForLoop ==
    /\ pc = "for"
    /\ IF i <= Len(temps)
       THEN /\ cur' = [NoRun EXCEPT !.config = [model |-> Model,
                                                temperature |-> TempOfRun(i),
                                                prompt |-> Prompt]]
            /\ pc' = NextStep[pc]
       ELSE /\ pc' = "done" /\ UNCHANGED cur
    /\ UNCHANGED <<i, clock, log, files, saved, inp, out>>

\* line 132: start = time.time()
StartTimer ==
    /\ pc = "start"
    /\ cur' = [cur EXCEPT !.start = clock]
    /\ log' = Append(log, Event("start", clock))
    /\ pc' = NextStep[pc]
    /\ UNCHANGED <<i, clock, files, saved, inp, out>>

\* line 142: client.post; a transport failure raises
Post ==
    /\ pc = "post"
    /\ \E r \in PostOutcomes :
          IF r.kind # "response"
          THEN /\ Abort("request", cur.config.temperature, r.kind)
               /\ UNCHANGED cur
          ELSE /\ cur' = [cur EXCEPT !.r = r]
               /\ log' = log \o <<Event("request", cur.config.temperature),
                                  Event("response", r.status)>>
               /\ pc' = NextStep[pc]
    /\ UNCHANGED <<i, clock, files, saved, inp, out>>

\* RaiseForStatus that never raises
RaiseForStatusIgnored ==
    /\ pc = "raise_for_status"
    /\ pc' = NextStep[pc]
    /\ UNCHANGED <<i, clock, log, cur, files, saved, inp, out>>

\* line 143: r.raise_for_status()
RaiseForStatus ==
    /\ pc = "raise_for_status"
    /\ IF IsSuccess(cur.r.status)
       THEN pc' = NextStep[pc] /\ UNCHANGED log
       ELSE Abort("raise_for_status", cur.r.status, "HTTPStatusError")
    /\ UNCHANGED <<i, clock, cur, files, saved, inp, out>>

\* line 144: data = r.json()
Json ==
    /\ pc = "json"
    /\ IF cur.r.body.json
       THEN /\ cur' = [cur EXCEPT !.data = cur.r.body.fields]
            /\ pc' = NextStep[pc] /\ UNCHANGED log
       ELSE /\ Abort("json", "none", "JSONDecodeError")
            /\ UNCHANGED cur
    /\ UNCHANGED <<i, clock, files, saved, inp, out>>

\* lines 86-90: the process CPU percentage over a 0.1 s window
CpuPercent ==
    /\ pc = "cpu_percent"
    /\ \E v \in {12} :
          /\ cur' = [cur EXCEPT !.cpu_percent = v]
          /\ log' = Append(log, Event("cpu_percent", v))
    /\ pc' = NextStep[pc]
    /\ UNCHANGED <<i, clock, files, saved, inp, out>>

\* line 92: proc.memory_info().rss
MemoryInfo ==
    /\ pc = "memory_info"
    /\ \E v \in {Bytes(80, 5243)} :
          /\ cur' = [cur EXCEPT !.rss = v]
          /\ log' = Append(log, Event("memory_info", v))
    /\ pc' = NextStep[pc]
    /\ UNCHANGED <<i, clock, files, saved, inp, out>>

\* lines 94-96: psutil.virtual_memory()
VirtualMemory ==
    /\ pc = "virtual_memory"
    /\ \E v \in [used : {Bytes(9000, 0)}, available : ScriptAvailSamples] :
          /\ cur' = [cur EXCEPT !.vm = v]
          /\ log' = Append(log, Event("virtual_memory", v))
    /\ pc' = NextStep[pc]
    /\ UNCHANGED <<i, clock, files, saved, inp, out>>

\* lines 98-100: psutil.swap_memory()
SwapMemory ==
    /\ pc = "swap_memory"
    /\ \E v \in [used : {Bytes(0, 0)}, total : {Bytes(1024, 0)}] :
          /\ cur' = [cur EXCEPT !.sm = v]
          /\ log' = Append(log, Event("swap_memory", v))
    /\ pc' = NextStep[pc]
    /\ UNCHANGED <<i, clock, files, saved, inp, out>>

\* line 103: vmstat = _read_vm_stat(); a failure of the subprocess raises
VmStat ==
    /\ pc = "vm_stat"
    /\ \E run \in ScriptVmStatRuns :
          LET vmstat == _read_vm_stat(run)
          IN IF vmstat.ok
             THEN /\ cur' = [cur EXCEPT !.vmstat = vmstat.val]
                  /\ log' = Append(log, Event("vm_stat", [run |-> run, parsed |-> vmstat.val]))
                  /\ pc' = NextStep[pc]
             ELSE /\ Abort("vm_stat", [run |-> run, parsed |-> vmstat.val], vmstat.exc)
                  /\ UNCHANGED cur
    /\ UNCHANGED <<i, clock, files, saved, inp, out>>

\* lines 104-124: the derived figures and the SystemMetrics, with time.time()
\* read at line 114
WallTime ==
    /\ pc = "wall_time"
    /\ cur' = [cur EXCEPT !.metrics =
                  SystemMetrics(cur.start, clock, cur.cpu_percent, cur.rss,
                                cur.vm, cur.sm, cur.vmstat)]
    /\ log' = Append(log, Event("wall_time", clock))
    /\ pc' = NextStep[pc]
    /\ UNCHANGED <<i, clock, files, saved, inp, out>>

\* lines 148-153: the RunResult; data["response"] raises KeyError when absent
Result ==
    /\ pc = "result"
    /\ IF "response" \in DOMAIN cur.data
       THEN /\ cur' = [cur EXCEPT !.result =
                          [config     |-> cur.config,
                           response   |-> Join(Strip(cur.data["response"])),
                           created_at |-> IsoFormat(UtcDateTime(clock)),
                           metrics    |-> cur.metrics]]
            /\ log' = Append(log, Event("result", clock))
            /\ pc' = NextStep[pc]
       ELSE /\ Abort("result", "none", "KeyError")
            /\ UNCHANGED cur
    /\ UNCHANGED <<i, clock, files, saved, inp, out>>

\* line 193: path = save_run(result)
SaveRun ==
    /\ pc = "save_run"
    /\ \E io \in SaveOutcomes :
          LET s == save_run(cur.result, clock, files, io)
          IN IF s.ret.ok
             THEN /\ files' = s.files
                  /\ saved' = Append(saved, [path |-> s.ret.val, result |-> cur.result])
                  /\ log' = Append(log, Event("save_run", s.ret.val))
                  /\ pc' = NextStep[pc]
             ELSE /\ Abort("save_run", "none", s.ret.exc)
                  /\ UNCHANGED <<files, saved>>
    /\ UNCHANGED <<i, clock, cur, inp, out>>

\* lines 195-202: the panel is printed and the loop goes on
PrintPanel ==
    /\ pc = "print"
    /\ i' = i + 1
    /\ cur' = NoRun
    /\ pc' = NextStep[pc]
    /\ UNCHANGED <<clock, log, files, saved, inp, out>>

HarnessOff == inp = [fn |-> "none"] /\ out = <<>>

Init ==
    /\ pc = "for" /\ i = 1 /\ clock = Clock0 /\ log = <<>> /\ cur = NoRun
    /\ files = NoFiles /\ saved = <<>>
    /\ HarnessOff

Next ==
    \/ Tick \/ ForLoop \/ StartTimer \/ Post \/ RaiseForStatus \/ Json
    \/ CpuPercent \/ MemoryInfo \/ VirtualMemory \/ SwapMemory \/ VmStat
    \/ WallTime \/ Result \/ SaveRun \/ PrintPanel

Spec == Init /\ [][Next]_vars

-----------------------------------------------------------------------------
(* The save harness: save_run is called with results created earlier, at   *)
(* any moment, each result once; the main script does not run.             *)

MaxSaves == 2
MaxSaveTicks == 2

InstantSamples == { Advance(Clock0, k * TickStep) : k \in 0..MaxSaveTicks }

SampleMetrics ==
    SystemMetrics(Clock0, Clock0, 12, Bytes(80, 5243),
                  [used |-> Bytes(9000, 0), available |-> Bytes(3000, 0)],
                  [used |-> Bytes(0, 0), total |-> Bytes(1024, 0)],
                  _read_vm_stat(VmStatOk(TypicalReport)).val)

\* a RunResult as run_prompt builds it when the clock reads created
RunResult(temperature, response, created) ==
    [config     |-> [model |-> Model, temperature |-> temperature, prompt |-> Prompt],
     response   |-> response,
     created_at |-> IsoFormat(UtcDateTime(created)),
     metrics    |-> SampleMetrics]

SaveTick ==
    /\ inp.fn = "save_run"
    /\ Elapsed(clock, Clock0) < MaxSaveTicks * TickStep
    /\ clock' = Advance(clock, TickStep)
    /\ UNCHANGED <<pc, i, log, cur, files, saved, inp, out>>

CallSaveRun ==
    /\ inp.fn = "save_run" /\ Len(out) < MaxSaves
    /\ \E temperature \in {3, 7}, response \in {"a", "b"}, created \in InstantSamples,
          io \in SaveOutcomes :
          LET result == RunResult(temperature, response, created)
              s == save_run(result, clock, files, io)
          IN /\ Elapsed(clock, created) >= 0
             /\ \A k \in 1..Len(saved) : saved[k].result # result
             /\ out' = Append(out, s.ret)
             /\ files' = s.files
             /\ saved' = IF s.ret.ok
                         THEN Append(saved, [path |-> s.ret.val, result |-> result])
                         ELSE saved
    /\ UNCHANGED <<pc, i, clock, log, cur, inp>>

ScriptOff ==
    /\ pc = "off" /\ i = 0 /\ clock = Clock0 /\ log = <<>> /\ cur = NoRun
    /\ files = NoFiles /\ saved = <<>>

SaveInit == ScriptOff /\ inp = [fn |-> "save_run"] /\ out = <<>>

SaveNext == SaveTick \/ CallSaveRun

SpecSave == SaveInit /\ [][SaveNext]_vars

-----------------------------------------------------------------------------
(* The function harness: each function is applied to the inputs drawn at   *)
(* the start; the main script does not run.                                *)

scriptVars == <<pc, i, clock, log, cur, files, saved>>

CallPressureLevel ==
    /\ inp.fn = "_pressure_level" /\ out = <<>>
    /\ out' = <<_pressure_level(inp.system_available_mb, inp.swap_used_mb)>>
    /\ UNCHANGED <<inp, scriptVars>>

CallReadVmStat ==
    /\ inp.fn = "_read_vm_stat" /\ out = <<>>
    /\ out' = <<_read_vm_stat(inp.run)>>
    /\ UNCHANGED <<inp, scriptVars>>

CallCollectMetrics ==
    /\ inp.fn = "collect_metrics" /\ Len(out) < Len(inp.starts)
    /\ out' = Append(out, collect_metrics(inp.starts[Len(out) + 1], inp.env))
    /\ UNCHANGED <<inp, scriptVars>>

FnInit ==
    /\ ScriptOff
    /\ inp \in PressureInputs \cup ReadVmStatInputs \cup CollectInputs
    /\ out = <<>>

FnNext == CallPressureLevel \/ CallReadVmStat \/ CallCollectMetrics

SpecFn == FnInit /\ [][FnNext]_vars

-----------------------------------------------------------------------------
(* Claims about the functions of the collector (checked under SpecFn).     *)

\* a float as a whole number of its own denominator's units
Units(x) == x.w * x.d + x.n

PressureCalled == inp.fn = "_pressure_level" /\ out # <<>>

\* C1: _pressure_level returns "high" exactly when swap_used_mb > 256 or
\* system_available_mb < 1024, otherwise "medium" exactly when swap_used_mb > 0
\* or system_available_mb < 2048, otherwise "low"; the comparisons are strict.
\* In particular swap 300 gives high, (3000, 0) low, (3000, 10) medium and
\* (500, 0) high.
C1_PressureThresholds ==
    PressureCalled =>
        LET a == inp.system_available_mb
            sw == inp.swap_used_mb
            isHigh == Units(sw) > 256 * sw.d \/ Units(a) < 1024 * a.d
            isMedium == Units(sw) > 0 \/ Units(a) < 2048 * a.d
        IN /\ out[1] \in {"low", "medium", "high"}
           /\ (out[1] = "high") <=> isHigh
           /\ (out[1] = "medium") <=> (~isHigh /\ isMedium)
           /\ (out[1] = "low") <=> (~isHigh /\ ~isMedium)
           /\ (sw = Mb(300, 0)) => out[1] = "high"
           /\ (a = Mb(3000, 0) /\ sw = Mb(0, 0)) => out[1] = "low"
           /\ (a = Mb(3000, 0) /\ sw = Mb(10, 0)) => out[1] = "medium"
           /\ (a = Mb(500, 0) /\ sw = Mb(0, 0)) => out[1] = "high"

\* 256 MB of swap and exactly 1024 MB available: not high, but medium
C1_Witness ==
    /\ PressureCalled
    /\ inp.swap_used_mb = Mb(256, 0) /\ inp.system_available_mb = Mb(1024, 0)
    /\ out[1] = "medium"

\* Where the patterns occur in a report, stated position by position: the
\* label at p, a colon, whitespace up to j - 1, digits at j..k-1, a period at k.
PagesOccurrence(text, label, p, j, k) ==
    /\ p + 2 < j /\ j < k /\ k <= Len(text)
    /\ \A q \in (p + 2)..(j - 1) : text[q] \in Whitespace
    /\ \A q \in j..(k - 1) : text[q] \in Digits
    /\ text[k] = "."

PagesAt(text, label, p) ==
    /\ p + 1 <= Len(text) /\ text[p] = label /\ text[p + 1] = ":"
    /\ \E j \in (p + 3)..Len(text) : \E k \in (j + 1)..Len(text) :
          PagesOccurrence(text, label, p, j, k)

PageSizeOccurrence(text, p, k) ==
    /\ p + 1 < k /\ k <= Len(text)
    /\ \A q \in (p + 1)..(k - 1) : text[q] \in Digits
    /\ text[k] = PageSizeSuffix

PageSizeAt(text, p) ==
    /\ text[p] = PageSizePrefix
    /\ \E k \in (p + 2)..Len(text) : PageSizeOccurrence(text, p, k)

RECURSIVE Pow10(_)
Pow10(e) == IF e = 0 THEN 1 ELSE 10 * Pow10(e - 1)

\* the number written by the digits at positions j..k-1
RECURSIVE Decimal(_, _, _)
Decimal(text, j, k) ==
    IF j >= k THEN 0
    ELSE DigitValue(text[j]) * Pow10(k - 1 - j) + Decimal(text, j + 1, k)

HasPages(text, label) == \E p \in 1..Len(text) : PagesAt(text, label, p)

ExpectedPages(text, label) ==
    IF ~HasPages(text, label) THEN 0
    ELSE LET p == CHOOSE q \in 1..Len(text) :
                      PagesAt(text, label, q) /\ \A r \in 1..(q - 1) : ~PagesAt(text, label, r)
             j == CHOOSE q \in (p + 3)..Len(text) :
                      \E k \in (q + 1)..Len(text) : PagesOccurrence(text, label, p, q, k)
             k == CHOOSE q \in (j + 1)..Len(text) : PagesOccurrence(text, label, p, j, q)
         IN Decimal(text, j, k)

HasPageSize(text) == \E p \in 1..Len(text) : PageSizeAt(text, p)

ExpectedPageSize(text) ==
    IF ~HasPageSize(text) THEN 4096
    ELSE LET p == CHOOSE q \in 1..Len(text) :
                      PageSizeAt(text, q) /\ \A r \in 1..(q - 1) : ~PageSizeAt(text, r)
             k == CHOOSE q \in (p + 2)..Len(text) : PageSizeOccurrence(text, p, q)
         IN Decimal(text, p + 1, k)

ExpectedVmStat(text) ==
    [page_size  |-> ExpectedPageSize(text),
     pages_free |-> ExpectedPages(text, "Pages free"),
     pages_spec |-> ExpectedPages(text, "Pages speculative"),
     pages_comp |-> ExpectedPages(text, "Pages occupied by compressor")]

\* C3: each of the four fields is parsed independently: the integer of the
\* (first) occurrence of its pattern when the report has one, the default
\* (4096 for the page size, 0 for a page count) when it has none; parsing
\* never raises, and collect_metrics returns a SystemMetrics whose
\* vm_available_mb and vm_compressed_mb are computed from those values (a
\* report without the compressor line gives vm_compressed_mb = 0.0).
C3_VmStatFields ==
    /\ (inp.fn = "_read_vm_stat" /\ out # <<>> /\ inp.run.kind = "ok") =>
          /\ out[1].ok
          /\ out[1].val = ExpectedVmStat(inp.run.text)
          /\ (inp.run.text = TypicalReport) =>
                out[1].val.page_size = 16384 /\ out[1].val.pages_free = 1000
    /\ (inp.fn = "collect_metrics" /\ inp.env.vm_stat.kind = "ok") =>
          \A c \in 1..Len(out) :
              LET e == ExpectedVmStat(inp.env.vm_stat.text)
              IN /\ out[c].ok
                 /\ out[c].val.vm_available_mb =
                        Round2(IntToMb((e.pages_free + e.pages_spec) * e.page_size))
                 /\ out[c].val.vm_compressed_mb = Round2(IntToMb(e.pages_comp * e.page_size))
                 /\ ~HasPages(inp.env.vm_stat.text, "Pages occupied by compressor") =>
                        out[c].val.vm_compressed_mb = [w |-> 0, n |-> 0, d |-> 100]

\* a report with the page size and the free pages but no well-formed compressor
\* line has been parsed by collect_metrics
C3_Witness ==
    /\ inp.fn = "collect_metrics" /\ out # <<>> /\ inp.env.vm_stat.kind = "ok"
    /\ HasPageSize(inp.env.vm_stat.text)
    /\ HasPages(inp.env.vm_stat.text, "Pages free")
    /\ ~HasPages(inp.env.vm_stat.text, "Pages occupied by compressor")
    /\ \E p \in 1..Len(inp.env.vm_stat.text) :
          inp.env.vm_stat.text[p] = "Pages occupied by compressor"
    /\ out[1].ok
    /\ out[1].val.vm_available_mb # [w |-> 0, n |-> 0, d |-> 100]
    /\ out[1].val.vm_compressed_mb = [w |-> 0, n |-> 0, d |-> 100]

\* start_time is earlier than or equal to the other clock reading
Before(a, b) == a.s < b.s \/ (a.s = b.s /\ a.f <= b.f)

\* C8: for every start_time, collect_metrics returns wall_time_s >= 0, and with
\* the clock reading at collection equal, an earlier start_time never yields a
\* smaller wall_time_s than a later one.
C8_WallTimeNonNegativeMonotone ==
    (inp.fn = "collect_metrics") =>
        /\ \A c \in 1..Len(out) : out[c].ok => out[c].val.wall_time_s >= 0
        /\ (Len(out) = 2 /\ out[1].ok /\ out[2].ok) =>
              /\ Before(inp.starts[1], inp.starts[2]) =>
                    out[1].val.wall_time_s >= out[2].val.wall_time_s
              /\ Before(inp.starts[2], inp.starts[1]) =>
                    out[2].val.wall_time_s >= out[1].val.wall_time_s

\* C9: the memory_pressure of every SystemMetrics is the classification of the
\* record's own (rounded) system_mem_available_mb and swap_used_mb.
C9_PressureOfStoredFields ==
    (inp.fn = "collect_metrics") =>
        \A c \in 1..Len(out) : out[c].ok =>
            out[c].val.memory_pressure =
                _pressure_level(out[c].val.system_mem_available_mb, out[c].val.swap_used_mb)

-----------------------------------------------------------------------------
(* Claims about save_run (checked under SpecSave).                         *)

\* C2: the file name chosen by save_run is determined by the RunResult alone:
\* for a result created at the UTC instant D with temperature T, the path is
\* runs/run_<YYYYMMDD of D>_<HHMMSS of D>_t<T with "." replaced by "p">.json,
\* at whatever moment save_run is called.
C2_NameFromCreatedAt ==
    \A k \in 1..Len(saved) : \A D \in InstantSamples :
        (saved[k].result.created_at = IsoFormat(UtcDateTime(D))) =>
            saved[k].path = RunFilePath(saved[k].result, D)

\* C10: after n successful save_run calls the n returned paths are pairwise
\* distinct and the runs directory holds n files, each containing the result
\* passed to the call that returned its path.
C10_NoRecordLost ==
    /\ \A k, l \in 1..Len(saved) : k # l => saved[k].path # saved[l].path
    /\ Cardinality(DOMAIN files) = Len(saved)
    /\ \A k \in 1..Len(saved) :
          saved[k].path \in DOMAIN files /\ files[saved[k].path] = saved[k].result

-----------------------------------------------------------------------------
(* Claims about the main script (checked under Spec).                      *)

Runs == 1..Len(temps)
Pos(n, ev) == { k \in 1..Len(log) : log[k].run = n /\ log[k].ev = ev }
Measurements ==
    {"cpu_percent", "memory_info", "virtual_memory", "swap_memory", "vm_stat", "wall_time"}
AfterResponse == Measurements \cup {"json", "result", "save_run"}

\* the POST of run n failed at the HTTP level (no response came back) or
\* returned a non-success status
HttpFailed(n) ==
    \/ Pos(n, "request") # {} /\ Pos(n, "response") = {}
    \/ \E k \in Pos(n, "response") : ~IsSuccess(log[k].val)

\* C4: when the POST fails or returns a non-success status, run_prompt raises,
\* the endpoint is contacted once, collect_metrics is not called, no RunResult
\* is created, no file is written for the run, and no later run is started.
C4_FailedRequestAbortsRun ==
    \A n \in Runs : HttpFailed(n) =>
        /\ pc \in {"raise_for_status", "aborted"}
        /\ (pc = "aborted") => log[Len(log)].ev = "raise"
        /\ i = n
        /\ Cardinality(Pos(n, "request")) = 1
        /\ \A ev \in AfterResponse : Pos(n, ev) = {}
        /\ \A m \in Runs : m > n => \A k \in 1..Len(log) : log[k].run # m
        /\ Len(saved) = n - 1 /\ Cardinality(DOMAIN files) = n - 1
        /\ \A k \in 1..Len(saved) : saved[k].result.config.temperature # temps[n]

\* the second run got a 500 and the script ended, with the first run's file kept
C4_Witness ==
    /\ pc = "aborted" /\ i = 2 /\ Len(saved) = 1
    /\ \E k \in Pos(2, "response") : log[k].val = 500

\* the vm_stat utility could not be invoked in run n
VmStatFailed(n) == \E k \in Pos(n, "vm_stat") : log[k].val.run.kind # "ok"

\* C5: when vm_stat cannot be invoked, collect_metrics returns no
\* SystemMetrics and substitutes no defaults: the failure ends the run although
\* the response was received; no RunResult is created and no file is written.
C5_VmStatFailureAbortsRun ==
    \A n \in Runs : VmStatFailed(n) =>
        /\ pc = "aborted" /\ i = n
        /\ log[Len(log)].ev = "raise"
        /\ log[Len(log)].val \in {"FileNotFoundError", "CalledProcessError"}
        /\ \E k \in Pos(n, "response") : IsSuccess(log[k].val)
        /\ \A ev \in {"wall_time", "result", "save_run"} : Pos(n, ev) = {}
        /\ Len(saved) = n - 1 /\ Cardinality(DOMAIN files) = n - 1

\* the first run received its response, then vm_stat was missing
C5_Witness ==
    /\ pc = "aborted" /\ i = 1 /\ DOMAIN files = {}
    /\ \E k \in Pos(1, "response") : log[k].val = 200
    /\ \E k \in Pos(1, "vm_stat") : log[k].val.run.kind = "FileNotFoundError"

Events == Measurements \cup {"start", "request", "response", "result", "save_run"}

\* where each kind of event of run n is in the log
Places(n) ==
    LET mine == { k \in 1..Len(log) : log[k].run = n }
    IN [ev \in Events |-> { k \in mine : log[k].ev = ev }]

\* the position of the only event of a kind
The(places) == CHOOSE k \in places : TRUE

\* the metrics built from the samples the events of a run recorded
MetricsOfEvents(at) ==
    SystemMetrics(log[at["start"]].val, log[at["wall_time"]].val,
                  log[at["cpu_percent"]].val, log[at["memory_info"]].val,
                  log[at["virtual_memory"]].val, log[at["swap_memory"]].val,
                  log[at["vm_stat"]].val.parsed)

\* C6: in every run the start timestamp is taken before the request is sent;
\* every measurement in the RunResult's metrics is taken after that start and
\* after the response is available, and before the RunResult is created.
C6_MeasurementsInsideRun ==
    \A n \in Runs :
        LET places == Places(n)
            at == [ev \in Events \ {"save_run"} |-> The(places[ev])]
        IN places["result"] # {} =>
            /\ \A ev \in Events \ {"save_run"} : Cardinality(places[ev]) = 1
            /\ at["start"] < at["request"]
            /\ at["request"] < at["response"]
            /\ \A ev \in Measurements :
                  at["response"] < at[ev] /\ at[ev] < at["result"]
            /\ (n <= Len(saved)) =>
                  /\ saved[n].result.metrics = MetricsOfEvents(at)
                  /\ saved[n].result.created_at =
                        IsoFormat(UtcDateTime(log[at["result"]].val))

\* the second run's result was saved, with a measured wall time of 0.6 s
C6_Witness ==
    /\ Len(saved) = 2 /\ Pos(2, "result") # {}
    /\ saved[2].result.metrics.wall_time_s = 6000
    /\ saved[2].result.metrics.memory_pressure = "high"

\* C7: the runs of the sweep never overlap: the request, the metrics collection
\* and the save of run n complete, in that order, before the request of run
\* n + 1 is sent, and the runs follow the order of the temperature list.
C7_RunsInSequence ==
    /\ \A k \in 1..(Len(log) - 1) : log[k].run <= log[k + 1].run
    /\ \A n \in Runs : \A k \in Pos(n, "request") : log[k].val = temps[n]
    /\ \A n \in Runs : (n + 1 \in Runs /\ Pos(n + 1, "request") # {}) =>
          LET places == Places(n)
          IN /\ \A ev \in {"request", "wall_time", "save_run"} :
                    Cardinality(places[ev]) = 1
             /\ The(places["request"]) < The(places["wall_time"])
             /\ The(places["wall_time"]) < The(places["save_run"])
             /\ \A k \in Pos(n + 1, "request") : The(places["save_run"]) < k
             /\ Len(saved) >= n

\* the request of the fourth run has been sent after three saved runs
C7_Witness ==
    /\ Pos(4, "request") # {} /\ Len(saved) = 3
    /\ \A n \in 1..3 : saved[n].result.config.temperature = temps[n]

====
